---- MODULE Spec2Model ----
(***************************************************************************)
(* Model of chat/views.py: the Chroma ingestion pipeline (load, split,     *)
(* calculate_chunk_ids, add_to_chroma), clear_database, ask_chroma and the *)
(* chatbot request handler that dispatches on the POSTed message.          *)
(*                                                                         *)
(* Text is modelled by what the code can observe of it: a page text is a   *)
(* length, a chunk's page_content is the slice "<source#page:lo-hi>" of    *)
(* that page.  Strings that the code formats (chunk ids, the context, the  *)
(* prompt, the response) are built by concatenation as the code does.      *)
(***************************************************************************)
EXTENDS Integers, Sequences, FiniteSets, TLC

VARIABLES
    exists,      \* os.path.exists(CHROMA_PATH): the persisted index directory
    store,       \* entries of the Chroma collection: [id, page_content, metadata]
    req,         \* the request being answered (method, message / direct call)
    called,      \* operations the handler ran, in order
    before,      \* [exists, store] when the request started
    docs,        \* load_documents() result of the request
    chunks,      \* chunks_with_ids of the request (add_to_chroma line 71)
    submitted,   \* one element per db.add_documents call: the ids passed
    embedCalls,  \* texts handed to the Embedder during the request
    results,     \* similarity_search_with_score result of the request
    prompts,     \* prompts sent to the Generator during the request
    built,       \* <<context_text, sources, formatted_response>> once ask_chroma
                 \* has built them, else <<>>
    resp,        \* what the handler returned, or the exception that left it
    repeat,      \* the request repeats the one before it, which completed:
                 \* the same request, the same operation, the same documents
    prior,       \* <<the index before the request before this one>> when this
                 \* request is a populate run that retries it: that request was
                 \* a populate run over the same documents and failed; else <<>>
    afterClear,  \* the request before this one was a Clear
    runs         \* the add_to_chroma calls in progress when two requests are
                 \* served at once: where each one is, its chunks_with_ids and
                 \* the existing_ids it read; <<>> when requests come one by one

vars == <<exists, store, req, called, before, docs, chunks, submitted,
          embedCalls, results, prompts, built, resp, repeat, prior, afterClear,
          runs>>

----------------------------------------------------------------------------
(* Program constants *)

CHROMA_PATH == "chroma"
DATA_PATH == "data"
ChunkSize == 800
ChunkOverlap == 80
DefaultNResults == 4
ContextDelimiter == "\n\n---\n\n"
None == "None"

(* Bounds of the model *)

\* a page text is long enough for at most MaxChunks chunks
MaxChunks == 2
\* longest chunk sequence given to calculate_chunk_ids on its own
MaxSeqLen == 4

----------------------------------------------------------------------------
(* The document source directory: what PyPDFDirectoryLoader finds *)

\* pages in the order the loader yields them (file by file, page by page)
PageOrder == << <<"a.pdf", 0>>, <<"a.pdf", 1>>, <<"b.pdf", 0>> >>

\* shortest page text that splits into n chunks
LenOf(n) ==
    IF n = 0 THEN 0
    ELSE IF n = 1 THEN ChunkSize
    ELSE ChunkSize + (n - 2) * (ChunkSize - ChunkOverlap) + 1

\* page text lengths tried: empty, shorter than a chunk, and one per chunk count
PageLengths == {0, ChunkSize - ChunkOverlap} \cup {LenOf(n) : n \in 1..MaxChunks}

\* the first page takes every length; the second page of that file has no
\* text (a scanned page: a Document that splits into no chunk); the page of
\* the other file is empty or one chunk
LengthsOfPage(i) ==
    IF i = 1 THEN PageLengths ELSE IF i = Len(PageOrder) THEN {0, ChunkSize} ELSE {0}

\* a content of the data directory: the text length of each page
DataSets == {d \in [1..Len(PageOrder) -> PageLengths] :
                \A i \in 1..Len(PageOrder) : d[i] \in LengthsOfPage(i)}

\* the characters lo..hi-1 of the text of a page
Slice(source, page, lo, hi) ==
    "<" \o source \o "#" \o ToString(page) \o ":" \o ToString(lo) \o "-"
        \o ToString(hi) \o ">"

Doc(content, meta) == [page_content |-> content, metadata |-> meta]

RECURSIVE LoadFrom(_, _)
LoadFrom(d, i) ==
    IF i > Len(PageOrder) THEN <<>>
    ELSE LET source == PageOrder[i][1]
             page == PageOrder[i][2]
         IN <<[page_content |-> [source |-> source, page |-> page, len |-> d[i]],
               metadata |-> [source |-> source, page |-> page]]>>
            \o LoadFrom(d, i + 1)

\* load_documents: one Document per page of every PDF under DATA_PATH
load_documents(d) == LoadFrom(d, 1)

----------------------------------------------------------------------------
(* split_documents: RecursiveCharacterTextSplitter(800, 80, len) *)

\* the windows of a text of length L starting at s: ChunkSize long, each
\* starting ChunkOverlap before the end of the previous one
RECURSIVE Windows(_, _)
Windows(s, L) ==
    IF s + ChunkSize >= L THEN <<[lo |-> s, hi |-> L]>>
    ELSE <<[lo |-> s, hi |-> s + ChunkSize]>>
         \o Windows(s + ChunkSize - ChunkOverlap, L)

split_text(L) == IF L = 0 THEN <<>> ELSE Windows(0, L)

\* the chunks of one page Document: its metadata copied onto every chunk
SplitOne(document) ==
    LET t == document.page_content
        w == split_text(t.len)
    IN [i \in 1..Len(w) |->
           Doc(Slice(t.source, t.page, w[i].lo, w[i].hi), document.metadata)]

RECURSIVE split_documents(_)
split_documents(documents) ==
    IF documents = <<>> THEN <<>>
    ELSE SplitOne(Head(documents)) \o split_documents(Tail(documents))

----------------------------------------------------------------------------
(* calculate_chunk_ids *)

\* f"{source}:{page}"
PageId(meta) == meta.source \o ":" \o ToString(meta.page)

\* the id with the index counted from 1
ChunkIdOneBased(page_id, index) == page_id \o ":" \o ToString(index + 1)

\* f"{current_page_id}:{current_chunk_index}"
ChunkId(page_id, index) == page_id \o ":" \o ToString(index)

\* the loop body with a counter that is never reset
NextChunkIndexNeverReset(current_page_id, last_page_id, current_chunk_index) ==
    current_chunk_index + 1

\* the loop body without the increment
NextChunkIndexNoIncrement(current_page_id, last_page_id, current_chunk_index) ==
    IF current_page_id = last_page_id THEN current_chunk_index ELSE 0

\* current_chunk_index after the if/else of the loop body
NextChunkIndex(current_page_id, last_page_id, current_chunk_index) ==
    IF current_page_id = last_page_id THEN current_chunk_index + 1 ELSE 0

\* the loop from position i on, with the loop variables as they are there
RECURSIVE IdLoop(_, _, _, _)
IdLoop(cs, i, last_page_id, current_chunk_index) ==
    IF i > Len(cs) THEN <<>>
    ELSE LET chunk == cs[i]
             current_page_id == PageId(chunk.metadata)
             index == NextChunkIndex(current_page_id, last_page_id,
                                     current_chunk_index)
             chunk_id == ChunkId(current_page_id, index)
             meta == [source |-> chunk.metadata.source,
                      page |-> chunk.metadata.page,
                      id |-> chunk_id]
         IN <<Doc(chunk.page_content, meta)>>
            \o IdLoop(cs, i + 1, current_page_id, index)

calculate_chunk_ids(cs) == IdLoop(cs, 1, None, 0)

\* chunk.metadata.get("id", None)
MetaId(meta) == IF "id" \in DOMAIN meta THEN meta.id ELSE None

IdsOf(cs) == [i \in 1..Len(cs) |-> MetaId(cs[i].metadata)]

Range(s) == {s[i] : i \in 1..Len(s)}

----------------------------------------------------------------------------
(* The Chroma collection persisted under CHROMA_PATH *)

Entry(id, document) ==
    [id |-> id, page_content |-> document.page_content,
     metadata |-> document.metadata]

\* db.get returning no id whatever is stored
StoredIdsNone(st) == {}

\* db.get(include=[])["ids"]
StoredIds(st) == {e.id : e \in st}

\* collection.upsert of one record: the entry stored under the id is replaced
UpsertOne(st, id, document) ==
    {e \in st : e.id # id} \cup {Entry(id, document)}

\* db.add_documents(documents, ids=ids) up to record n of the batch: the
\* records at the positions persisted are written, in order
RECURSIVE WriteBatch(_, _, _, _, _)
WriteBatch(st, documents, ids, persisted, n) ==
    IF n = 0 THEN st
    ELSE LET written == WriteBatch(st, documents, ids, persisted, n - 1)
         IN IF n \in persisted THEN UpsertOne(written, ids[n], documents[n])
            ELSE written

add_documents(st, documents, ids) ==
    WriteBatch(st, documents, ids, 1..Len(documents), Len(documents))

----------------------------------------------------------------------------
(* What one call leaves behind: the index, what it did, and how it ended *)

Begin(ex, st) ==
    [exists |-> ex, store |-> st, called |-> <<>>, docs |-> <<>>,
     chunks |-> <<>>, submitted |-> <<>>, embedCalls |-> <<>>,
     results |-> <<>>, prompts |-> <<>>, error |-> None, value |-> <<>>]

\* failures of the collaborators; a failure happens only if the call is made
NoFault == [kind |-> "none", persisted |-> {}]
LoaderFault == [kind |-> "loader", persisted |-> {}]
ReadFault == [kind |-> "store_read", persisted |-> {}]
EmbedFault == [kind |-> "embedder", persisted |-> {}]
GeneratorFault == [kind |-> "generator", persisted |-> {}]
\* the write fails with the records at these positions of the batch persisted
WriteFault(positions) == [kind |-> "store_write", persisted |-> positions]

\* the failures a populate run can meet: a write of a batch of len records
\* fails with any of its records persisted, none and all included
PopulateFaults(len) ==
    {NoFault, ReadFault, EmbedFault}
    \cup IF len = 0 THEN {} ELSE {WriteFault(positions) : positions \in SUBSET (1..len)}

QueryFaults == {NoFault, ReadFault, EmbedFault, GeneratorFault}

\* an index opened without its persisted entries
ChromaInMemory(o) == [o EXCEPT !.exists = TRUE, !.store = {}]

\* Chroma(persist_directory=CHROMA_PATH, ...): opens the index, creating the
\* directory when it is missing
Chroma(o) == [o EXCEPT !.exists = TRUE]

\* lines 78-82 without the membership test
NewChunksUnfiltered(chunks_with_ids, existing_ids) == chunks_with_ids

\* lines 78-82 with the loop left at the first chunk that is already stored
NewChunksUntilStored(chunks_with_ids, existing_ids) ==
    LET stored == {i \in 1..Len(chunks_with_ids) :
                      chunks_with_ids[i].metadata.id \in existing_ids}
    IN IF stored = {} THEN chunks_with_ids
       ELSE SubSeq(chunks_with_ids, 1,
                   (CHOOSE i \in stored : \A j \in stored : i <= j) - 1)

\* lines 78-82: the chunks whose id is not in existing_ids, in order
NewChunks(chunks_with_ids, existing_ids) ==
    SelectSeq(chunks_with_ids, LAMBDA chunk : chunk.metadata.id \notin existing_ids)

\* lines 85-87: db.add_documents(new_chunks, ids=new_chunk_ids); the texts are
\* embedded first, then the records are written
AddDocuments(o, new_chunks, new_chunk_ids, fault) ==
    IF fault.kind = "embedder"
    THEN [o EXCEPT !.submitted = <<new_chunk_ids>>,
                   !.embedCalls = [i \in 1..Len(new_chunks) |-> new_chunks[i].page_content],
                   !.error = "EmbeddingFailure"]
    ELSE IF Cardinality(Range(new_chunk_ids)) < Len(new_chunk_ids)
    THEN \* the collection rejects a batch that holds an id twice
         [o EXCEPT !.submitted = <<new_chunk_ids>>,
                   !.embedCalls = [i \in 1..Len(new_chunks) |-> new_chunks[i].page_content],
                   !.error = "DuplicateIDError"]
    ELSE IF fault.kind = "store_write"
    THEN [o EXCEPT !.submitted = <<new_chunk_ids>>,
                   !.embedCalls = [i \in 1..Len(new_chunks) |-> new_chunks[i].page_content],
                   !.store = WriteBatch(o.store, new_chunks, new_chunk_ids,
                                        fault.persisted, Len(new_chunks)),
                   !.error = "IndexUnavailable"]
    ELSE [o EXCEPT !.submitted = <<new_chunk_ids>>,
                   !.embedCalls = [i \in 1..Len(new_chunks) |-> new_chunks[i].page_content],
                   !.store = add_documents(o.store, new_chunks, new_chunk_ids)]

\* lines 84-90 with the test len(new_chunks) > 1
AddNewOffByOne(o, new_chunks, fault) ==
    IF Len(new_chunks) > 1
    THEN AddDocuments(o, new_chunks, IdsOf(new_chunks), fault)
    ELSE o

\* lines 84-90
AddNew(o, new_chunks, fault) ==
    IF Len(new_chunks) > 0
    THEN AddDocuments(o, new_chunks, IdsOf(new_chunks), fault)
    ELSE o

\* lines 73-90 adding or updating: a chunk whose stored entry differs from it
\* is written too
ReconcileUpdating(db, chunks_with_ids, fault) ==
    IF fault.kind = "store_read"
    THEN [db EXCEPT !.chunks = chunks_with_ids, !.error = "IndexUnavailable"]
    ELSE AddNew([db EXCEPT !.chunks = chunks_with_ids],
                SelectSeq(chunks_with_ids,
                          LAMBDA chunk : Entry(chunk.metadata.id, chunk) \notin db.store),
                fault)

\* lines 73-90, db being the opened index
Reconcile(db, chunks_with_ids, fault) ==
    IF fault.kind = "store_read"
    THEN [db EXCEPT !.chunks = chunks_with_ids, !.error = "IndexUnavailable"]
    ELSE AddNew([db EXCEPT !.chunks = chunks_with_ids],
                NewChunks(chunks_with_ids, StoredIds(db.store)), fault)

add_to_chroma(o, cs, fault) == Reconcile(Chroma(o), calculate_chunk_ids(cs), fault)

\* lines 164-165
SplitAndAdd(o, documents, fault) ==
    add_to_chroma([o EXCEPT !.docs = documents], split_documents(documents), fault)

\* populate_database with the loader's exception swallowed: the run goes on
\* with no documents
PopulateSwallowingLoaderFailure(o, d, fault) ==
    IF fault.kind = "loader"
    THEN SplitAndAdd([o EXCEPT !.called = Append(o.called, "populate_database")],
                     <<>>, NoFault)
    ELSE SplitAndAdd([o EXCEPT !.called = Append(o.called, "populate_database")],
                     load_documents(d), fault)

populate_database(o, d, fault) ==
    IF fault.kind = "loader"
    THEN [o EXCEPT !.called = Append(o.called, "populate_database"),
                   !.error = "ExtractionFailure"]
    ELSE SplitAndAdd([o EXCEPT !.called = Append(o.called, "populate_database")],
                     load_documents(d), fault)

----------------------------------------------------------------------------
(* clear_database *)

\* a removal that takes the directory away and leaves the collection's entries
\* readable
RmTreeKeepingEntries(o) ==
    IF o.exists THEN [o EXCEPT !.exists = FALSE]
    ELSE [o EXCEPT !.error = "FileNotFoundError"]

\* shutil.rmtree(CHROMA_PATH): removes the directory, fails if there is none
rmtree(o) ==
    IF o.exists THEN [o EXCEPT !.exists = FALSE, !.store = {}]
    ELSE [o EXCEPT !.error = "FileNotFoundError"]

\* clear_database without the os.path.exists test
ClearWithoutGuard(o) ==
    rmtree([o EXCEPT !.called = Append(o.called, "clear_database")])

clear_database(o) ==
    LET start == [o EXCEPT !.called = Append(o.called, "clear_database")]
    IN IF start.exists THEN rmtree(start) ELSE start

----------------------------------------------------------------------------
(* The Embedder and the similarity search of the collection *)

\* every chunk text the splitter can produce, with the vector the Embedder
\* gives it (a fixed function of the text)
AllSlices ==
    UNION { UNION { { [text |-> Slice(PageOrder[i][1], PageOrder[i][2], w.lo, w.hi),
                       vec |-> (w.lo + w.hi) \div ChunkOverlap + i]
                      : w \in Range(split_text(L)) }
                    : L \in LengthsOfPage(i) }
            : i \in 1..Len(PageOrder) }

Embed(text) ==
    IF \E r \in AllSlices : r.text = text
    THEN (CHOOSE r \in AllSlices : r.text = text).vec
    ELSE Len(text) + Len(text) + Len(text)

Distance(u, v) == (u - v) * (u - v)

Score(e, message) == Distance(Embed(e.page_content), Embed(message))

Min(a, b) == IF a < b THEN a ELSE b

\* the rankings the collection may return for n results: each next result is
\* a closest one among the entries left (equally close entries in any order)
RECURSIVE Nearest(_, _, _)
Nearest(st, message, n) ==
    IF n = 0 \/ st = {} THEN {<<>>}
    ELSE UNION { { <<[doc |-> Doc(e.page_content, e.metadata),
                      score |-> Score(e, message)]>> \o rest
                   : rest \in Nearest(st \ {e}, message, n - 1) }
                 : e \in {x \in st :
                            \A y \in st : Score(x, message) <= Score(y, message)} }

\* collection.query(n_results=k) on a collection of size n returns
\* min(k, n) results
Rankings(st, message, k) ==
    IF k <= 0 THEN {<<>>} ELSE Nearest(st, message, Min(k, Cardinality(st)))

\* a search that fails on a collection without entries
SearchRejectingEmpty(o, message, n_results, fault, ranking) ==
    LET embedded == [o EXCEPT !.embedCalls = Append(o.embedCalls, message)]
    IN IF fault.kind = "embedder"
       THEN [embedded EXCEPT !.error = "EmbeddingFailure"]
       ELSE IF n_results <= 0
       THEN [embedded EXCEPT !.error = "InvalidNResults"]
       ELSE IF fault.kind = "store_read"
       THEN [embedded EXCEPT !.error = "IndexUnavailable"]
       ELSE IF o.store = {}
       THEN [embedded EXCEPT !.error = "NoIndexException"]
       ELSE [embedded EXCEPT !.results = ranking]

\* db.similarity_search_with_score(message, n_results): the query text is
\* embedded, a number of results below 1 is rejected by the collection,
\* otherwise the ranking is returned
similarity_search_with_score(o, message, n_results, fault, ranking) ==
    LET embedded == [o EXCEPT !.embedCalls = Append(o.embedCalls, message)]
    IN IF fault.kind = "embedder"
       THEN [embedded EXCEPT !.error = "EmbeddingFailure"]
       ELSE IF n_results <= 0
       THEN [embedded EXCEPT !.error = "InvalidNResults"]
       ELSE IF fault.kind = "store_read"
       THEN [embedded EXCEPT !.error = "IndexUnavailable"]
       ELSE [embedded EXCEPT !.results = ranking]

----------------------------------------------------------------------------
(* ask_chroma *)

\* separator.join(strings)
RECURSIVE Join(_, _)
Join(strings, separator) ==
    IF strings = <<>> THEN ""
    ELSE IF Len(strings) = 1 THEN strings[1]
    ELSE strings[1] \o separator \o Join(Tail(strings), separator)

\* line 146 over the results in reverse order
ContextTextReversed(rs) ==
    Join([i \in 1..Len(rs) |-> rs[Len(rs) + 1 - i].doc.page_content],
         ContextDelimiter)

\* line 146
ContextText(rs) ==
    Join([i \in 1..Len(rs) |-> rs[i].doc.page_content], ContextDelimiter)

\* PROMPT_TEMPLATE with its two slots filled, as the one human message of the
\* chat prompt
FormatPrompt(context, question) ==
    "Human: \nAnswer the question based only on the following context:\n\n"
        \o context
        \o "\n\n---\n\nAnswer the question based on the above context: "
        \o question \o "\n"

\* the Generator's text for a prompt
Generate(prompt) == "LLM(" \o prompt \o ")"

\* line 154
\* line 154 leaving out the results whose metadata has no id
SourcesSkippingMissing(rs) ==
    SelectSeq([i \in 1..Len(rs) |-> MetaId(rs[i].doc.metadata)],
              LAMBDA id : id # None)

\* line 154
Sources(rs) == [i \in 1..Len(rs) |-> MetaId(rs[i].doc.metadata)]

PyRepr(x) == IF x = None THEN "None" ELSE "'" \o x \o "'"

PyList(xs) == "[" \o Join([i \in 1..Len(xs) |-> PyRepr(xs[i])], ", ") \o "]"

\* line 155
FormatResponse(answer, srcs) ==
    "Response: " \o answer \o "<br>Sources: " \o PyList(srcs)

ask_chroma(o, message, n_results, fault, ranking) ==
    LET start == [o EXCEPT !.called = Append(o.called, "ask_chroma")]
        db == Chroma(start)
        found == similarity_search_with_score(db, message, n_results, fault, ranking)
    IN IF found.error # None THEN found
       ELSE LET context_text == ContextText(found.results)
                prompt == FormatPrompt(context_text, message)
                asked == [found EXCEPT !.prompts = Append(found.prompts, prompt)]
            IN IF fault.kind = "generator"
               THEN [asked EXCEPT !.error = "GenerationFailure"]
               ELSE LET answer == Generate(prompt)
                        srcs == Sources(found.results)
                    IN [asked EXCEPT
                          !.value = <<[context |-> context_text, sources |-> srcs,
                                       text |-> FormatResponse(answer, srcs)]>>]

----------------------------------------------------------------------------
(* chatbot *)

Messages == {"Populate", "Clear", "populate", "Who?"}
KValues == {-1, 0, 1, DefaultNResults}

\* the comparisons of lines 179 and 186 made without regard to case
RouteIgnoringCase(message) ==
    IF message \in {"Populate", "populate"} THEN "populate_database"
    ELSE IF message \in {"Clear", "clear"} THEN "clear_database"
    ELSE "ask_chroma"

\* lines 179, 186, 193: which branch a POSTed message takes
Route(message) ==
    IF message = "Populate" THEN "populate_database"
    ELSE IF message = "Clear" THEN "clear_database"
    ELSE "ask_chroma"

JsonResponse(message, response) ==
    [kind |-> "json", message |-> message, response |-> response]

Raised(error) == [kind |-> "exception", error |-> error]

\* what leaves the handler: the branch's JsonResponse, or the exception of
\* the operation, which no handler in chatbot catches
Respond(o, message, response) ==
    IF o.error # None THEN Raised(o.error) ELSE JsonResponse(message, response)

\* the state after a call that ended as o and returned r
Finish(o, request, r) ==
    /\ exists' = o.exists
    /\ store' = o.store
    /\ req' = request
    /\ called' = o.called
    /\ before' = [exists |-> exists, store |-> store]
    /\ docs' = o.docs
    /\ chunks' = o.chunks
    /\ submitted' = o.submitted
    /\ embedCalls' = o.embedCalls
    /\ results' = o.results
    /\ prompts' = o.prompts
    /\ built' = o.value
    /\ resp' = r
    /\ repeat' = /\ o.error = None
                 /\ resp.kind \in {"json", "return"}
                 /\ req = request
                 /\ called = o.called
                 /\ docs = o.docs
    /\ prior' = IF /\ o.called = <<"populate_database">>
                    /\ o.docs # <<>>
                    /\ called = o.called
                    /\ docs = o.docs
                    /\ resp.kind = "exception"
                 THEN <<before.store>>
                 ELSE <<>>
    /\ afterClear' = (called = <<"clear_database">>)
    /\ runs' = runs

\* a data directory the loader fails on is not read
EmptyData == [i \in 1..Len(PageOrder) |-> 0]

\* how many records a populate run over d hands to db.add_documents
BatchSize(st, d) ==
    Len(NewChunks(calculate_chunk_ids(split_documents(load_documents(d))),
                  StoredIds(st)))

\* n_results is the parameter of ask_chroma: its default unless the caller
\* gives one
Request(via, method, message, n_results) ==
    [via |-> via, method |-> method, message |-> message, n_results |-> n_results]

Post(message) ==
    LET o == Begin(exists, store)
        request == Request("chatbot", "POST", message, DefaultNResults)
    IN IF Route(message) = "populate_database"
       THEN \/ \E done \in {populate_database(o, EmptyData, LoaderFault)} :
                Finish(done, request, Respond(done, message, "Database populated"))
            \/ \E d \in DataSets :
               \E fault \in PopulateFaults(BatchSize(store, d)) :
               \E done \in {populate_database(o, d, fault)} :
                Finish(done, request, Respond(done, message, "Database populated"))
       ELSE IF Route(message) = "clear_database"
       THEN \E done \in {clear_database(o)} :
                Finish(done, request, Respond(done, message, "Database cleared"))
       ELSE \E fault \in QueryFaults :
            \E ranking \in Rankings(store, message, DefaultNResults) :
            \E done \in {ask_chroma(o, message, DefaultNResults, fault, ranking)} :
                Finish(done, request,
                       Respond(done, message,
                               IF done.error = None THEN done.value[1].text ELSE None))

\* any other method: the page is rendered
Get ==
    Finish(Begin(exists, store), Request("chatbot", "GET", None, DefaultNResults),
           [kind |-> "html", template |-> "chatbot.html"])

chatbot ==
    \/ \E message \in Messages : Post(message)
    \/ Get

\* ask_chroma called with a number of results of the caller's choice
AskChroma ==
    \E message \in {"Populate", "Who?"}, k \in KValues, fault \in QueryFaults :
    \E ranking \in Rankings(store, message, k) :
    \E done \in {ask_chroma(Begin(exists, store), message, k, fault, ranking)} :
        Finish(done, Request("ask_chroma", None, message, k),
               IF done.error # None THEN Raised(done.error)
               ELSE [kind |-> "return", text |-> done.value[1].text])

Init ==
    /\ exists = FALSE
    /\ store = {}
    /\ req = Request(None, None, None, DefaultNResults)
    /\ called = <<>>
    /\ before = [exists |-> FALSE, store |-> {}]
    /\ docs = <<>>
    /\ chunks = <<>>
    /\ submitted = <<>>
    /\ embedCalls = <<>>
    /\ results = <<>>
    /\ prompts = <<>>
    /\ built = <<>>
    /\ resp = [kind |-> "none"]
    /\ repeat = FALSE
    /\ prior = <<>>
    /\ afterClear = FALSE
    /\ runs = <<>>

Next == chatbot \/ AskChroma

Spec == Init /\ [][Next]_vars

----------------------------------------------------------------------------
(* The same requests on a CHROMA_PATH that already holds an entry this       *)
(* program did not write: a chunk added without ids (the collection gave it  *)
(* an id of its own) whose metadata has the source and the page but no "id". *)

LegacyEntry ==
    [id |-> "0b5e9f1c", page_content |-> Slice("a.pdf", 0, 0, ChunkSize),
     metadata |-> [source |-> "a.pdf", page |-> 0]]

InitLegacy ==
    /\ exists = TRUE
    /\ store = {LegacyEntry}
    /\ req = Request(None, None, None, DefaultNResults)
    /\ called = <<>>
    /\ before = [exists |-> TRUE, store |-> {LegacyEntry}]
    /\ docs = <<>>
    /\ chunks = <<>>
    /\ submitted = <<>>
    /\ embedCalls = <<>>
    /\ results = <<>>
    /\ prompts = <<>>
    /\ built = <<>>
    /\ resp = [kind |-> "none"]
    /\ repeat = FALSE
    /\ prior = <<>>
    /\ afterClear = FALSE
    /\ runs = <<>>

SpecLegacy == InitLegacy /\ [][Next]_vars

----------------------------------------------------------------------------
(* calculate_chunk_ids on its own: any chunk sequence, page-grouped or not.   *)
(* Here docs is the sequence given and chunks the sequence returned.          *)

\* the (source, page) pairs the chunks given come from
PageKeys == Range(PageOrder)

ChunkInputs ==
    UNION { [1..n -> PageKeys] : n \in 0..MaxSeqLen }

\* the chunk at position i of the chunks cut from the pages keys[1], keys[2], ...
InputChunks(keys) ==
    [i \in 1..Len(keys) |->
        Doc("chunk " \o ToString(i),
            [source |-> keys[i][1], page |-> keys[i][2]])]

InitIds ==
    /\ exists = FALSE
    /\ store = {}
    /\ req = Request(None, None, None, DefaultNResults)
    /\ called = <<>>
    /\ before = [exists |-> FALSE, store |-> {}]
    /\ docs \in {InputChunks(keys) : keys \in ChunkInputs}
    /\ chunks = <<>>
    /\ submitted = <<>>
    /\ embedCalls = <<>>
    /\ results = <<>>
    /\ prompts = <<>>
    /\ built = <<>>
    /\ resp = [kind |-> "none"]
    /\ repeat = FALSE
    /\ prior = <<>>
    /\ afterClear = FALSE
    /\ runs = <<>>

\* calculate_chunk_ids(chunks) over the sequence given, then once more over
\* the sequence it returned, whose chunks carry the ids of the first run
CalculateChunkIds ==
    /\ called \in {<<>>, <<"calculate_chunk_ids">>}
    /\ chunks' = calculate_chunk_ids(IF called = <<>> THEN docs ELSE chunks)
    /\ called' = Append(called, "calculate_chunk_ids")
    /\ UNCHANGED <<exists, store, req, before, docs, submitted, embedCalls,
                   results, prompts, built, resp, repeat, prior, afterClear,
                   runs>>

\* add_to_chroma(chunks) over the sequence given, on the index as it is
AddToChroma ==
    /\ called = <<>>
    /\ \E done \in {add_to_chroma(Begin(exists, store), docs, NoFault)} :
          /\ exists' = done.exists
          /\ store' = done.store
          /\ chunks' = done.chunks
          /\ submitted' = done.submitted
          /\ embedCalls' = done.embedCalls
          /\ resp' = IF done.error # None THEN Raised(done.error)
                     ELSE [kind |-> "return", text |-> None]
    /\ called' = <<"add_to_chroma">>
    /\ UNCHANGED <<req, before, docs, results, prompts, built, repeat, prior,
                   afterClear, runs>>

NextIds == CalculateChunkIds \/ AddToChroma

SpecIds == InitIds /\ [][NextIds]_vars

----------------------------------------------------------------------------
(* Two populate requests served at once (two workers of the web server, or  *)
(* two processes on the same CHROMA_PATH).  add_to_chroma reads the stored   *)
(* ids (line 74) and writes the new chunks (line 87) in two separate calls   *)
(* to the store, so the steps of the two runs interleave in every order.     *)
(* Here submitted collects the batches of both runs in the order written.    *)

RunNames == {"first", "second"}

InFlight(run) == run.pc \in {"opened", "read"}

InitRace ==
    /\ exists = FALSE
    /\ store = {}
    /\ req = Request(None, None, None, DefaultNResults)
    /\ called = <<>>
    /\ before = [exists |-> FALSE, store |-> {}]
    /\ docs = <<>>
    /\ chunks = <<>>
    /\ submitted = <<>>
    /\ embedCalls = <<>>
    /\ results = <<>>
    /\ prompts = <<>>
    /\ built = <<>>
    /\ resp = [kind |-> "none"]
    /\ repeat = FALSE
    /\ prior = <<>>
    /\ afterClear = FALSE
    /\ runs = [p \in RunNames |->
                 [pc |-> "idle", chunks |-> <<>>, existing_ids |-> {},
                  overlapped |-> FALSE]]

\* lines 164-165 and 66-71 of one run: the documents are loaded and split, the
\* index is opened and the chunk ids are calculated
OpenAndCalculate(p) ==
    /\ runs[p].pc = "idle"
    /\ \E d \in DataSets :
       \E db \in {Chroma(Begin(exists, store))} :
          /\ exists' = db.exists
          /\ store' = db.store
          /\ runs' = [runs EXCEPT ![p] =
                        [pc |-> "opened",
                         chunks |-> calculate_chunk_ids(
                                        split_documents(load_documents(d))),
                         existing_ids |-> {},
                         overlapped |-> \E q \in RunNames \ {p} :
                                            InFlight(runs[q])]]
    /\ UNCHANGED <<req, called, before, docs, chunks, submitted, embedCalls,
                   results, prompts, built, resp, repeat, prior,
                   afterClear>>

\* lines 74-75 of one run: existing_ids is what the store holds now
ReadExisting(p) ==
    /\ runs[p].pc = "opened"
    /\ runs' = [runs EXCEPT ![p].pc = "read",
                            ![p].existing_ids = StoredIds(store)]
    /\ UNCHANGED <<exists, store, req, called, before, docs, chunks, submitted,
                   embedCalls, results, prompts, built, resp, repeat, prior,
                   afterClear>>

\* lines 78-90 of one run: the chunks not in the existing_ids it read are
\* written
WriteNew(p) ==
    /\ runs[p].pc = "read"
    /\ \E done \in {AddNew(Begin(exists, store),
                            NewChunks(runs[p].chunks, runs[p].existing_ids),
                            NoFault)} :
          /\ store' = done.store
          /\ submitted' = submitted \o done.submitted
    /\ runs' = [runs EXCEPT ![p].pc = "done"]
    /\ UNCHANGED <<exists, req, called, before, docs, chunks, embedCalls,
                   results, prompts, built, resp, repeat, prior,
                   afterClear>>

NextRace ==
    \E p \in RunNames : OpenAndCalculate(p) \/ ReadExisting(p) \/ WriteNew(p)

SpecRace == InitRace /\ [][NextRace]_vars

----------------------------------------------------------------------------
(* Properties *)

Completed == resp.kind \in {"json", "return"}

Populated == called = <<"populate_database">> /\ Completed

\* the ids handed to db.add_documents during the request, in order
Sent == IF submitted = <<>> THEN <<>> ELSE submitted[1]

\* C1 (idempotent ingestion): a populate run that directly follows a completed
\* populate run over the same document set adds nothing - db.add_documents is
\* not called, no chunk is embedded - and leaves the index as the first run
\* left it.
IdempotentIngestion ==
    (Populated /\ repeat) =>
        /\ submitted = <<>>
        /\ embedCalls = <<>>
        /\ store = before.store

IdempotentIngestionWitness ==
    /\ Populated /\ repeat
    /\ Len(chunks) >= 3
    /\ Cardinality(store) >= 3

\* s is t with some elements left out
IsSubSeq(s, t) ==
    \E f \in [1..Len(s) -> 1..Len(t)] :
        /\ \A i \in 1..Len(s) : s[i] = t[f[i]]
        /\ \A i, j \in 1..Len(s) : i < j => f[i] < f[j]

\* C2 (dedup correctness): a completed add_to_chroma run over chunks with ids C
\* on an index with stored ids E submits, in one batch and in order, exactly
\* the ids of C that are not in E, each once; afterwards the stored ids are
\* E union C and every entry stored before is still there unchanged.
DedupCorrectness ==
    Populated =>
        LET E == StoredIds(before.store)
            C == IdsOf(chunks)
        IN /\ Len(submitted) <= 1
           /\ Range(Sent) = Range(C) \ E
           /\ Cardinality(Range(Sent)) = Len(Sent)
           /\ IsSubSeq(Sent, C)
           /\ StoredIds(store) = E \cup Range(C)
           /\ before.store \subseteq store
           /\ Cardinality(store) = Cardinality(StoredIds(store))

DedupCorrectnessWitness ==
    /\ Populated
    /\ StoredIds(before.store) = {"a.pdf:0:0", "b.pdf:0:0"}
    /\ IdsOf(chunks) = <<"a.pdf:0:0", "a.pdf:0:1", "b.pdf:0:0">>
    /\ Sent = <<"a.pdf:0:1">>

\* the chunks of one (source, page) pair are next to each other
PageGrouped(cs) ==
    \A i, j \in 1..Len(cs) :
        (i < j /\ PageId(cs[i].metadata) = PageId(cs[j].metadata)) =>
            \A m \in i..j : PageId(cs[m].metadata) = PageId(cs[i].metadata)

\* C3 (uniqueness): for a page-grouped chunk sequence, the ids that
\* calculate_chunk_ids assigns are pairwise distinct.
UniqueIds ==
    (called = <<"calculate_chunk_ids">> /\ PageGrouped(docs)) =>
        /\ Len(chunks) = Len(docs)
        /\ \A i, j \in 1..Len(chunks) :
              i # j => chunks[i].metadata.id # chunks[j].metadata.id

UniqueIdsWitness ==
    /\ called = <<"calculate_chunk_ids">>
    /\ PageGrouped(docs)
    /\ Len(docs) = MaxSeqLen
    /\ PageId(docs[1].metadata) = PageId(docs[2].metadata)
    /\ PageId(docs[2].metadata) # PageId(docs[3].metadata)
    /\ PageId(docs[3].metadata) = PageId(docs[4].metadata)

\* C4 (clear idempotence): clear_database never raises; after it the index is
\* absent; on an index that is already absent (a second clear in a row, or an
\* index never created) it changes nothing.
ClearIdempotence ==
    called = <<"clear_database">> =>
        /\ resp.kind # "exception"
        /\ ~exists
        /\ store = {}
        /\ ~before.exists => (exists = before.exists /\ store = before.store)

ClearIdempotenceWitness ==
    /\ called = <<"clear_database">>
    /\ repeat
    /\ ~before.exists

\* C5 (directive dispatch): a POST runs exactly one operation: the populate
\* pipeline iff the message is "Populate", the wipe iff it is "Clear", the
\* query otherwise; "Populate" and "Clear" never reach the Embedder or the
\* Generator, and a query neither ingests nor wipes.
DirectiveDispatch ==
    (req.via = "chatbot" /\ req.method = "POST") =>
        /\ Len(called) = 1
        /\ called[1] = "populate_database" <=> req.message = "Populate"
        /\ called[1] = "clear_database" <=> req.message = "Clear"
        /\ called[1] = "ask_chroma" <=> req.message \notin {"Populate", "Clear"}
        /\ req.message \in {"Populate", "Clear"} =>
              /\ req.message \notin Range(embedCalls)
              /\ prompts = <<>>
              /\ results = <<>>
        /\ req.message \notin {"Populate", "Clear"} =>
              /\ docs = <<>>
              /\ submitted = <<>>
              /\ store = before.store
              /\ before.exists => exists

DirectiveDispatchWitness ==
    /\ req.via = "chatbot" /\ req.method = "POST"
    /\ req.message = "populate"
    /\ called = <<"ask_chroma">>
    /\ store # {}
    /\ Completed

Asked == called = <<"ask_chroma">>

\* C6 (a query never mutates the index): whatever the message, the number of
\* results asked for and the index, and whether the query completes or a
\* collaborator fails, ask_chroma leaves the stored entries as they were.
QueryFrame == Asked => store = before.store

QueryFrameWitness ==
    /\ Asked
    /\ Cardinality(store) >= 2
    /\ resp = Raised("GenerationFailure")
    /\ Len(results) >= 2

\* the texts of the results, closest first, with the delimiter between them
RECURSIVE ConcatUpTo(_, _)
ConcatUpTo(rs, n) ==
    IF n = 0 THEN ""
    ELSE IF n = 1 THEN rs[1].doc.page_content
    ELSE ConcatUpTo(rs, n - 1) \o "\n\n---\n\n" \o rs[n].doc.page_content

\* C7 (ranking and context order): the results of a query are in ascending
\* distance order and no entry left out is closer than one returned; the
\* context block is the result texts in that order joined by the delimiter;
\* the sources are the result ids in that order, one per result, each naming
\* the stored entry whose text is at the same position of the context.
RankingAndContextOrder ==
    (Asked /\ built # <<>>) =>
        /\ \A i, j \in 1..Len(results) :
              i < j => results[i].score <= results[j].score
        /\ \A i \in 1..Len(results) :
              results[i].score = Score(results[i].doc, req.message)
        /\ \A e \in store :
              (\A i \in 1..Len(results) : results[i].doc.page_content # e.page_content)
                  => \A i \in 1..Len(results) :
                        results[i].score <= Score(e, req.message)
        /\ built[1].context = ConcatUpTo(results, Len(results))
        /\ Len(built[1].sources) = Len(results)
        /\ \A i \in 1..Len(results) :
              \E e \in store :
                  /\ e.page_content = results[i].doc.page_content
                  /\ e.metadata = results[i].doc.metadata
                  /\ built[1].sources[i] = MetaId(e.metadata)

RankingAndContextOrderWitness ==
    /\ Asked /\ built # <<>>
    /\ Len(results) >= 3
    /\ results[1].score < results[2].score
    /\ results[2].score < results[3].score

\* the failures of the Embedder, the VectorStore and the Generator
CollaboratorFailed ==
    resp \in {Raised("EmbeddingFailure"), Raised("IndexUnavailable"),
              Raised("GenerationFailure")}

Max(a, b) == IF a > b THEN a ELSE b

\* C8 (graceful k handling): for every index size n and every k, including
\* k <= 0 and k > n, a query whose collaborators do not fail does not fail
\* and uses min(max(k, 0), n) results; with k = 0 the context block and the
\* source list are empty.
GracefulK ==
    (Asked /\ ~CollaboratorFailed) =>
        /\ resp.kind # "exception"
        /\ built # <<>>
        /\ Len(results) = Min(Max(req.n_results, 0), Cardinality(before.store))
        /\ req.n_results = 0 =>
              (built[1].context = "" /\ built[1].sources = <<>>)

\* C9 (an empty index is not an error): a query with a number of results the
\* collection accepts, against an index that is missing or empty, finds
\* nothing; unless the Embedder or the store fails, the Generator is invoked
\* exactly once, with the prompt whose context slot is empty and whose
\* question slot is the message; unless the Generator fails too, its answer is
\* returned with an empty source list.
EmptyIndexQuery ==
    (Asked /\ before.store = {} /\ req.n_results >= 1) =>
        /\ results = <<>>
        /\ resp \notin {Raised("EmbeddingFailure"), Raised("IndexUnavailable")} =>
              /\ Len(prompts) = 1
              /\ prompts[1] =
                    "Human: \nAnswer the question based only on the following context:\n\n"
                    \o "\n\n---\n\nAnswer the question based on the above context: "
                    \o req.message \o "\n"
        /\ ~CollaboratorFailed =>
              /\ resp.kind # "exception"
              /\ built # <<>>
              /\ built[1].context = ""
              /\ built[1].sources = <<>>
              /\ built[1].text =
                    "Response: " \o Generate(prompts[1]) \o "<br>Sources: []"
              /\ resp.kind = "json" =>
                    (resp.message = req.message /\ resp.response = built[1].text)

EmptyIndexQueryWitness ==
    /\ Asked
    /\ req.via = "chatbot"
    /\ ~before.exists
    /\ before.store = {}
    /\ resp.kind = "json"
    /\ Len(prompts) = 1

\* C10 (failures never reach the end user as an unhandled fault): whatever
\* the directive and whichever collaborator fails, the chatbot handler returns
\* a response instead of letting the exception leave it.
NoUnhandledFault ==
    req.via = "chatbot" => resp.kind # "exception"


\* load_documents raised: every data directory holds the pages of PageOrder,
\* so a populate run is left without documents only by the loader's failure
LoaderFailed == called = <<"populate_database">> /\ docs = <<>>

\* C11 (extraction failure fails the whole populate run): when load_documents
\* fails, populate_database splits nothing, does not open or write the index,
\* embeds nothing, so the index is as it was before the run; the failure
\* leaves the caller as the loader's exception, never as the "Database
\* populated" response.
ExtractionFailureAborts ==
    LoaderFailed =>
        /\ resp = Raised("ExtractionFailure")
        /\ chunks = <<>>
        /\ submitted = <<>>
        /\ embedCalls = <<>>
        /\ store = before.store
        /\ exists = before.exists

ExtractionFailureAbortsWitness ==
    /\ LoaderFailed
    /\ resp = Raised("ExtractionFailure")
    /\ Cardinality(before.store) >= 3
    /\ store = before.store


\* the position where the run of equal (source, page) that holds cs[i] starts
RunStart(cs, i) ==
    CHOOSE j \in 1..i :
        /\ \A m \in j..i : PageId(cs[m].metadata) = PageId(cs[i].metadata)
        /\ j = 1 \/ PageId(cs[j - 1].metadata) # PageId(cs[i].metadata)

\* C12 (chunk index assignment): for every chunk sequence, page-grouped or
\* not, calculate_chunk_ids leaves the chunks and their order as they are and
\* gives the chunk at position i the id "<source>:<page>:<index>", its index
\* being the number of chunks before it in its maximal run of equal
\* (source, page): 0 for the first of the run, then 1, 2, ... without gaps.
\* Running it again over the chunks it returned, which carry ids, gives the
\* same ids.
ChunkIndexAssignment ==
    (called # <<>> /\ Range(called) = {"calculate_chunk_ids"}) =>
        /\ Len(chunks) = Len(docs)
        /\ \A i \in 1..Len(chunks) :
              /\ chunks[i].page_content = docs[i].page_content
              /\ chunks[i].metadata.source = docs[i].metadata.source
              /\ chunks[i].metadata.page = docs[i].metadata.page
              /\ chunks[i].metadata.id =
                    docs[i].metadata.source \o ":"
                    \o ToString(docs[i].metadata.page) \o ":"
                    \o ToString(i - RunStart(docs, i))

ChunkIndexAssignmentWitness ==
    /\ called = <<"calculate_chunk_ids", "calculate_chunk_ids">>
    /\ IdsOf(chunks) = <<"a.pdf:0:0", "a.pdf:0:1", "a.pdf:0:2", "b.pdf:0:0">>


\* how many times id was handed to db.add_documents, over all batches
TimesWritten(id) ==
    Cardinality({bi \in UNION {{<<b, i>> : i \in 1..Len(submitted[b])} :
                                  b \in 1..Len(submitted)} :
                    submitted[bi[1]][bi[2]] = id})

WrittenIds == UNION {Range(submitted[b]) : b \in 1..Len(submitted)}

\* no run started while the other one was between opening the index and the
\* end of its write
Serialized == \A p \in DOMAIN runs : ~runs[p].overlapped

\* C13 (concurrent ingestion is a race): an id is handed to db.add_documents
\* twice only when both runs read the stored ids before either wrote it, so
\* that neither existing_ids holds it; when the runs are serialized, one in
\* flight at a time, every id is written at most once.
WritesOncePerIdWhenSerialized ==
    \A id \in WrittenIds :
        /\ Serialized => TimesWritten(id) = 1
        /\ TimesWritten(id) > 1 =>
              /\ ~Serialized
              /\ \A p \in DOMAIN runs :
                    /\ runs[p].pc = "done"
                    /\ id \in Range(IdsOf(runs[p].chunks))
                    /\ id \notin runs[p].existing_ids

\* the double write: both runs classified the same id as new and wrote it
WritesOncePerIdWhenSerializedWitness ==
    /\ \A p \in DOMAIN runs : runs[p].pc = "done"
    /\ Len(submitted) = Cardinality(RunNames)
    /\ TimesWritten("a.pdf:0:1") = Cardinality(RunNames)
    /\ \A p \in DOMAIN runs : "a.pdf:0:1" \notin runs[p].existing_ids


\* the entries a run over chunks cs writes: each chunk under its id
EntriesOf(cs) == {Entry(cs[i].metadata.id, cs[i]) : i \in 1..Len(cs)}

\* C14 (retry after a partial or aborted ingestion is safe): a populate run
\* over chunks C that fails, whichever of its new chunks it persisted, leaves
\* an index without duplicate ids that holds the entries of the index before
\* it and entries of C only; the complete run over the same C that follows
\* submits exactly the ids of C not yet stored, in order, and ends with the
\* index that an uninterrupted run from the index before the failed run gives:
\* its entries, and the chunks of C whose ids it did not hold.
RetryAfterPartialRun ==
    /\ (called = <<"populate_database">> /\ resp.kind = "exception") =>
          /\ Cardinality(store) = Cardinality(StoredIds(store))
          /\ before.store \subseteq store
          /\ store \subseteq before.store \cup EntriesOf(chunks)
    /\ (Populated /\ prior # <<>>) =>
          /\ Sent = SelectSeq(IdsOf(chunks),
                              LAMBDA id : id \notin StoredIds(before.store))
          /\ StoredIds(store) = StoredIds(prior[1]) \cup Range(IdsOf(chunks))
          /\ store = prior[1] \cup {e \in EntriesOf(chunks) :
                                       e.id \notin StoredIds(prior[1])}

\* the failed run persisted the second of three new chunks only
RetryAfterPartialRunWitness ==
    /\ Populated
    /\ prior = <<{}>>
    /\ StoredIds(before.store) = {"a.pdf:0:1"}
    /\ Sent = <<"a.pdf:0:0", "b.pdf:0:0">>

InterleavedPagesShareIds ==
    (called # <<>> /\ ~PageGrouped(docs)) =>
        /\ \E i, j \in 1..Len(chunks) :
              /\ i < j
              /\ chunks[i].metadata.id = chunks[j].metadata.id
              /\ chunks[i].page_content # chunks[j].page_content
        /\ called = <<"add_to_chroma">> =>
              /\ Len(submitted) = 1
              /\ Sent = IdsOf(chunks)
              /\ \E i, j \in 1..Len(Sent) : i < j /\ Sent[i] = Sent[j]

\* the chunks of page a.pdf:0, b.pdf:0 and a.pdf:0 again
InterleavedPagesShareIdsWitness ==
    /\ called = <<"add_to_chroma">>
    /\ Len(docs) = Len(PageOrder)
    /\ Sent = <<"a.pdf:0:0", "b.pdf:0:0", "a.pdf:0:0">>


HasId(result) == "id" \in DOMAIN result.doc.metadata

\* C17 (a missing source identity propagates as a marker): when a retrieved
\* entry's metadata has no id, the query does not raise because of it: unless
\* the Generator fails, the response is built; its source list has one element
\* per result, None at the position of each result without id and the id at
\* the position of each other result, and the text renders them in that order.
MissingIdMarker ==
    (Asked /\ \E i \in 1..Len(results) : ~HasId(results[i])) =>
        \/ resp = Raised("GenerationFailure")
        \/ /\ resp.kind # "exception"
           /\ built # <<>>
           /\ Len(built[1].sources) = Len(results)
           /\ \A i \in 1..Len(results) :
                 built[1].sources[i] =
                    IF HasId(results[i]) THEN results[i].doc.metadata.id ELSE None
           /\ built[1].text =
                 "Response: " \o Generate(prompts[1]) \o "<br>Sources: ["
                 \o Join([i \in 1..Len(results) |->
                            IF HasId(results[i])
                            THEN "'" \o results[i].doc.metadata.id \o "'"
                            ELSE "None"], ", ")
                 \o "]"

\* the entry without id is retrieved after one with an id and before another
MissingIdMarkerWitness ==
    /\ Asked
    /\ resp.kind = "json"
    /\ Len(results) >= 3
    /\ HasId(results[1])
    /\ ~HasId(results[2])
    /\ built[1].sources[2] = None
    /\ built[1].sources[3] # None


\* C18 (populate completeness after any history): after any sequence of
\* Populate, Clear and query requests served one at a time, a populate run
\* that completes (its chunks are page-grouped, coming from the splitter)
\* leaves every id of its chunks in the index; when the request before it was
\* a Clear, it submits every chunk, in order, and the index then holds exactly
\* the entries of its chunks.
PopulateCompleteness ==
    (Populated /\ PageGrouped(chunks)) =>
        /\ Range(IdsOf(chunks)) \subseteq StoredIds(store)
        /\ exists
        /\ afterClear =>
              /\ Sent = IdsOf(chunks)
              /\ Len(Sent) = Len(split_documents(docs))
              /\ StoredIds(store) = Range(IdsOf(chunks))
              /\ store = EntriesOf(chunks)

PopulateCompletenessWitness ==
    /\ Populated
    /\ afterClear
    /\ ~before.exists
    /\ Len(chunks) >= Len(PageOrder)
    /\ Cardinality(store) = Len(chunks)

====
